---------------------------- MODULE Spec2Model ----------------------------
(***************************************************************************)
(* A model of build.py (links/*.yaml -> links.json): the schema registry,  *)
(* validate_entry, favicon_url and the build orchestrator.                 *)
(*                                                                         *)
(* Representation of Python values (what yaml.safe_load produces):         *)
(*   str   [t |-> "str",  s |-> <<token, ...>>]                            *)
(*   int   [t |-> "int",  n |-> Int]                                       *)
(*   bool  [t |-> "bool", b |-> BOOLEAN]                                   *)
(*   None  [t |-> "none"]                                                  *)
(*   list  [t |-> "list", l |-> <<value, ...>>]                            *)
(*   dict  [t |-> "dict", d |-> [key |-> value, ...]]                      *)
(* A Python string is the sequence of its tokens: a token is a maximal run *)
(* of word characters (\w+) or one single non-word character.  Two strings *)
(* are equal exactly when their token sequences are.  The word tokens of   *)
(* the inputs are ASCII letters and digits only, and the values of an      *)
(* entry's fields are never mappings.                                      *)
(***************************************************************************)
EXTENDS Integers, Sequences, FiniteSets, TLC

VARIABLES
    check_only,   \* build's parameter
    dir,          \* the names matched by LINKS_DIR.glob("*.yaml")
    yaml_files,   \* sorted(...) of them
    fi,           \* position of the `for yaml_file in yaml_files` loop
    entries,      \* yaml.safe_load(f) of the current file
    ei,           \* position of the `for entry in entries` loop
    file_errors,  \* errors of the current file
    errors,       \* accumulated error list
    links,        \* accumulated link list
    seen_ids,     \* identifiers seen so far in the run
    out_file,     \* what this run wrote to OUT_FILE: <<>> or <<document>>
    rc,           \* exit status of the run, -1 while it runs
    pc            \* control point of build

vars == <<check_only, dir, yaml_files, fi, entries, ei, file_errors, errors,
          links, seen_ids, out_file, rc, pc>>

----------------------------------------------------------------------------
(* Bounds *)

MaxEntries == 2

----------------------------------------------------------------------------
(* Python values *)

Str(toks) == [t |-> "str", s |-> toks]
W(word) == Str(<<word>>)
PyInt(n) == [t |-> "int", n |-> n]
PyBool(b) == [t |-> "bool", b |-> b]
None == [t |-> "none"]
PyList(items) == [t |-> "list", l |-> items]
PyDict(f) == [t |-> "dict", d |-> f]

EmptyStr == Str(<<>>)

IsStr(v) == v.t = "str"
IsList(v) == v.t = "list"
IsDict(v) == v.t = "dict"

\* bool(v), and the truth test of `not v` / `v or w`
Truthy(v) ==
    CASE v.t = "str" -> v.s # <<>>
      [] v.t = "int" -> v.n # 0
      [] v.t = "bool" -> v.b
      [] v.t = "none" -> FALSE
      [] v.t = "list" -> v.l # <<>>
      [] v.t = "dict" -> DOMAIN v.d # {}

\* Only str, int, bool and None are hashable
Hashable(v) == v.t \in {"str", "int", "bool", "none"}

\* entry.get(key, default); entry.get(key) is Get(entry, key, None)
Get(entry, key, default) ==
    IF key \in DOMAIN entry.d THEN entry.d[key] ELSE default

Has(entry, key) == key \in DOMAIN entry.d

----------------------------------------------------------------------------
(* Characters and tokens *)

Whitespace == {" ", "\t", "\n"}
Punct == Whitespace \cup
    {":", "/", ".", "{", "}", "|", "[", "]", "?", "#", "@", "&", "=", "-",
     "+", "'", ",", "(", ")"}
IsWord(tok) == tok \notin Punct

Digit == <<"0", "1", "2", "3", "4", "5", "6", "7", "8", "9">>

RECURSIVE NatToStr(_)
NatToStr(n) ==
    IF n < 10 THEN Digit[n + 1] ELSE NatToStr(n \div 10) \o Digit[(n % 10) + 1]

\* The tokens of str(n) for an int n
IntToToks(n) == IF n < 0 THEN <<"-", NatToStr(-n)>> ELSE <<NatToStr(n)>>

\* The integers the decimal parser is tried on
IntRange == -20 .. 130

\* int(s) for a str s: the integer written s in decimal, if any
ParsesAs(toks) == {n \in IntRange : IntToToks(n) = toks}

\* The characters of the word tokens of the inputs that list() splits
CharsOf(tok) ==
    CASE tok = "name" -> <<"n", "a", "m", "e">>
      [] tok = "url" -> <<"u", "r", "l">>
      [] OTHER -> <<tok>>

RECURSIVE CharList(_)
CharList(toks) ==
    IF toks = <<>> THEN <<>>
    ELSE [i \in 1 .. Len(CharsOf(Head(toks))) |-> W(CharsOf(Head(toks))[i])]
         \o CharList(Tail(toks))

RECURSIVE ReprToks(_)
RECURSIVE JoinRepr(_)
\* repr(v): str(v) but with a str quoted
ReprToks(v) ==
    CASE v.t = "str" -> <<"'">> \o v.s \o <<"'">>
      [] v.t = "int" -> IntToToks(v.n)
      [] v.t = "bool" -> IF v.b THEN <<"True">> ELSE <<"False">>
      [] v.t = "none" -> <<"None">>
      [] v.t = "list" -> <<"[">> \o JoinRepr(v.l) \o <<"]">>
JoinRepr(items) ==
    IF items = <<>> THEN <<>>
    ELSE IF Len(items) = 1 THEN ReprToks(items[1])
    ELSE ReprToks(items[1]) \o <<",", " ">> \o JoinRepr(Tail(items))

\* str(v)
PyStrOf(v) == IF v.t = "str" THEN v ELSE Str(ReprToks(v))

\* int(v): [ok, n] or the exception raised
PyIntOf(v) ==
    CASE v.t = "int" -> [ok |-> TRUE, n |-> v.n]
      [] v.t = "bool" -> [ok |-> TRUE, n |-> IF v.b THEN 1 ELSE 0]
      [] v.t = "str" ->
            IF ParsesAs(v.s) # {}
            THEN [ok |-> TRUE, n |-> CHOOSE n \in ParsesAs(v.s) : TRUE]
            ELSE [ok |-> FALSE, exc |-> "ValueError"]
      [] OTHER -> [ok |-> FALSE, exc |-> "TypeError"]

\* list(v): [ok, l] or the exception raised
PyListOf(v) ==
    CASE v.t = "list" -> [ok |-> TRUE, l |-> v.l]
      [] v.t = "str" -> [ok |-> TRUE, l |-> CharList(v.s)]
      [] v.t \in {"int", "bool", "none"} -> [ok |-> FALSE, exc |-> "TypeError"]

\* s.strip()
RECURSIVE LStrip(_)
LStrip(toks) ==
    IF toks # <<>> /\ Head(toks) \in Whitespace THEN LStrip(Tail(toks)) ELSE toks
RECURSIVE RStrip(_)
RStrip(toks) ==
    IF toks # <<>> /\ toks[Len(toks)] \in Whitespace
    THEN RStrip(SubSeq(toks, 1, Len(toks) - 1)) ELSE toks
Strip(toks) == RStrip(LStrip(toks))

----------------------------------------------------------------------------
(* Schema registry *)

\* FILENAME_TO_CATEGORY, as a set of <<stem, category>> pairs
FILENAME_TO_CATEGORY ==
    { <<"archives-press", "Archives & Press">>,
      <<"environment-science", "Environment & Science">>,
      <<"government-legal", "Government & Legal">>,
      <<"hash-cracking", "Hash Cracking">>,
      <<"historical", "Historical">>,
      <<"maps", "Maps">>,
      <<"network-scanning", "Network Scanning">>,
      <<"people-search", "People Search">>,
      <<"search-files", "Search & Files">>,
      <<"social-video", "Social & Video">>,
      <<"social-profiles", "Social Profiles">>,
      <<"threat-intelligence", "Threat Intelligence">>,
      <<"username-search", "Username Search">>,
      <<"validation-tools", "Validation & Tools">>,
      <<"vehicle-lookup", "Vehicle Lookup">>,
      <<"whois-dns", "WHOIS & DNS">> }

MappedStems == {p[1] : p \in FILENAME_TO_CATEGORY}

\* FILENAME_TO_CATEGORY.get(stem), for a mapped stem
CategoryOf(stem) == (CHOOSE p \in FILENAME_TO_CATEGORY : p[1] = stem)[2]

KNOWN_TYPES ==
    { W("name"), W("alias"), W("domain"), Str(<<"email", "-", "address">>),
      Str(<<"ip", "-", "address">>), W("IPV6"),
      Str(<<"phone", "-", "number">>), W("hashtag"), W("url"),
      Str(<<"gps", "-", "coordinates">>), Str(<<"crypto", "-", "address">>),
      W("VIN"), W("hash"), W("any") }

KNOWN_PAYWALLS == { W("Free"), W("Freemium"), W("Paid") }

KNOWN_FORMATTERS ==
    { "urlEncode", "base64", "lower", "upper",
      "stripPunct", "spaceToNothing", "spaceToDash", "spaceToDot",
      "userFromEmail", "domainFromEmail", "firstName", "lastName",
      "noEncoding", "firstIP" }

\* PLACEHOLDER_RE.findall(url) from token i on: the <<name, formatter>> pairs
\* of the non-overlapping matches of \{(\w+)(?:[|:](\w+))?\}, left to right;
\* formatter is "" when the optional group did not take part.
RECURSIVE FindFrom(_, _)
FindFrom(toks, i) ==
    IF i > Len(toks) THEN <<>>
    ELSE IF toks[i] = "{" /\ i + 2 <= Len(toks) /\ IsWord(toks[i + 1])
                /\ toks[i + 2] = "}"
    THEN <<<<toks[i + 1], "">>>> \o FindFrom(toks, i + 3)
    ELSE IF toks[i] = "{" /\ i + 4 <= Len(toks) /\ IsWord(toks[i + 1])
                /\ toks[i + 2] \in {"|", ":"} /\ IsWord(toks[i + 3])
                /\ toks[i + 4] = "}"
    THEN <<<<toks[i + 1], toks[i + 3]>>>> \o FindFrom(toks, i + 5)
    ELSE FindFrom(toks, i + 1)

PLACEHOLDER_RE_findall(toks) == FindFrom(toks, 1)

----------------------------------------------------------------------------
(* Validation *)

\* One error string: the file it names, the id it names, what it reports
Err(source, idtoks, kind, arg) ==
    [src |-> source, id |-> idtoks, kind |-> kind, arg |-> arg]

\* Lines 78-80: one error per required field that is absent or falsy
RECURSIVE MissingErrors(_, _, _)
MissingErrors(entry, loc, fields) ==
    IF fields = <<>> THEN <<>>
    ELSE (IF ~Truthy(Get(entry, Head(fields), None))
          THEN <<Err(loc[1], loc[2], "missing", <<Head(fields)>>)>>
          ELSE <<>>)
         \o MissingErrors(entry, loc, Tail(fields))

\* Lines 85-87: one error per element that is not a known type
RECURSIVE UnknownTypeErrors(_, _)
UnknownTypeErrors(types, loc) ==
    IF types = <<>> THEN <<>>
    ELSE (IF Head(types) \notin KNOWN_TYPES
          THEN <<Err(loc[1], loc[2], "unknown type", PyStrOf(Head(types)).s)>>
          ELSE <<>>)
         \o UnknownTypeErrors(Tail(types), loc)

\* Lines 82-87
TypesErrors(entry, loc) ==
    LET types == Get(entry, "types", None)
    IN  IF ~IsList(types) \/ Len(types.l) = 0
        THEN <<Err(loc[1], loc[2], "types not a non-empty list", <<>>)>>
        ELSE UnknownTypeErrors(types.l, loc)

\* A payWall check without the "Free" default
PayWallErrorsNoDefault(entry, loc) ==
    LET pw == Get(entry, "payWall", None)
    IN  IF pw \notin KNOWN_PAYWALLS
        THEN <<Err(loc[1], loc[2], "payWall", PyStrOf(pw).s)>>
        ELSE <<>>

\* Lines 89-91
PayWallErrors(entry, loc) ==
    LET pw == Get(entry, "payWall", W("Free"))
    IN  IF pw \notin KNOWN_PAYWALLS
        THEN <<Err(loc[1], loc[2], "payWall", PyStrOf(pw).s)>>
        ELSE <<>>

\* Lines 94-96: one error per placeholder whose formatter is unknown
RECURSIVE FormatterErrors(_, _)
FormatterErrors(matches, loc) ==
    IF matches = <<>> THEN <<>>
    ELSE (IF Head(matches)[2] # "" /\ Head(matches)[2] \notin KNOWN_FORMATTERS
          THEN <<Err(loc[1], loc[2], "unknown formatter", <<Head(matches)[2]>>)>>
          ELSE <<>>)
         \o FormatterErrors(Tail(matches), loc)

\* The TypeError validate_entry raises: `t not in KNOWN_TYPES` and
\* `pw not in KNOWN_PAYWALLS` hash their left operand, and findall wants a str
ValidateRaises(entry) ==
    LET types == Get(entry, "types", None)
    IN  \/ IsList(types) /\ \E i \in 1 .. Len(types.l) : ~Hashable(types.l[i])
        \/ ~Hashable(Get(entry, "payWall", W("Free")))
        \/ ~IsStr(Get(entry, "url", EmptyStr))

\* validate_entry(entry, source): the list of errors, or the exception
validate_entry(entry, source) ==
    LET loc == <<source, PyStrOf(Get(entry, "id", W("?"))).s>>
    IN  IF ValidateRaises(entry)
        THEN [raised |-> TRUE, errors |-> <<>>]
        ELSE [raised |-> FALSE,
              errors |->
                  MissingErrors(entry, loc, <<"id", "display", "url", "types">>)
                  \o TypesErrors(entry, loc)
                  \o PayWallErrors(entry, loc)
                  \o FormatterErrors(
                         PLACEHOLDER_RE_findall(Get(entry, "url", EmptyStr).s),
                         loc)]

----------------------------------------------------------------------------
(* urllib.parse.urlparse(url).hostname, on tokens *)

\* Index of the first token of toks, from i on, that is in set; 0 if none
RECURSIVE FindTok(_, _, _)
FindTok(toks, set, i) ==
    IF i > Len(toks) THEN 0
    ELSE IF toks[i] \in set THEN i
    ELSE FindTok(toks, set, i + 1)

\* Index of the last token of toks that is in set; 0 if none
RECURSIVE RFindTok(_, _, _)
RFindTok(toks, set, i) ==
    IF i < 1 THEN 0
    ELSE IF toks[i] \in set THEN i
    ELSE RFindTok(toks, set, i - 1)

DigitWords == {NatToStr(n) : n \in 0 .. 130}

\* urlsplit's scheme test: url[:i] starts with a letter and is made of
\* letters, digits, "+", "-" and "."
IsScheme(toks) ==
    /\ toks # <<>>
    /\ IsWord(toks[1]) /\ toks[1] \notin DigitWords
    /\ \A k \in 1 .. Len(toks) : IsWord(toks[k]) \/ toks[k] \in {"+", "-", "."}

\* What is left of the url once urlsplit has taken the scheme
AfterScheme(toks) ==
    LET i == FindTok(toks, {":"}, 1)
    IN  IF i > 1 /\ IsScheme(SubSeq(toks, 1, i - 1))
        THEN SubSeq(toks, i + 1, Len(toks))
        ELSE toks

\* urlsplit's netloc: after a leading "//", up to the first of "/", "?", "#"
Netloc(toks) ==
    LET rest == AfterScheme(toks)
    IN  IF Len(rest) >= 2 /\ rest[1] = "/" /\ rest[2] = "/"
        THEN LET j == FindTok(rest, {"/", "?", "#"}, 3)
             IN  SubSeq(rest, 3, IF j = 0 THEN Len(rest) ELSE j - 1)
        ELSE <<>>

Contains(toks, tok) == \E k \in 1 .. Len(toks) : toks[k] = tok

\* urlsplit raises ValueError("Invalid IPv6 URL") on an unbalanced bracket
UrlParseRaises(toks) ==
    LET netloc == Netloc(toks)
    IN  \/ Contains(netloc, "[") /\ ~Contains(netloc, "]")
        \/ Contains(netloc, "]") /\ ~Contains(netloc, "[")

\* .hostname: the netloc after its last "@", then what a "[" ... "]" pair
\* brackets, else what precedes the first ":"; <<>> stands for None
Hostname(toks) ==
    LET netloc == Netloc(toks)
        at == RFindTok(netloc, {"@"}, Len(netloc))
        hostinfo == SubSeq(netloc, at + 1, Len(netloc))
        br == FindTok(hostinfo, {"["}, 1)
    IN  IF br > 0
        THEN LET bracketed == SubSeq(hostinfo, br + 1, Len(hostinfo))
                 cl == FindTok(bracketed, {"]"}, 1)
             IN  SubSeq(bracketed, 1, IF cl = 0 THEN Len(bracketed) ELSE cl - 1)
        ELSE LET co == FindTok(hostinfo, {":"}, 1)
             IN  SubSeq(hostinfo, 1, IF co = 0 THEN Len(hostinfo) ELSE co - 1)

\* tok.lower(), for the word tokens of the inputs
Lower(tok) ==
    CASE tok = "Example" -> "example"
      [] tok = "COM" -> "com"
      [] OTHER -> tok

LowerToks(toks) == [k \in 1 .. Len(toks) |-> Lower(toks[k])]

FaviconPrefix ==
    <<"https", ":", "/", "/", "www", ".", "google", ".", "com", "/", "s2", "/",
      "favicons", "?", "domain", "=">>
FaviconSuffix == <<"&", "sz", "=", "32">>

\* favicon_url(url), for the tokens of a str url
favicon_url(toks) ==
    IF UrlParseRaises(toks)
    THEN EmptyStr
    ELSE Str(FaviconPrefix \o LowerToks(Hostname(toks)) \o FaviconSuffix)

----------------------------------------------------------------------------
(* The inputs: file names, file contents, dates *)

\* The stems of the *.yaml files LINKS_DIR may hold
Stems == {"historical", "maps", "maps-old"}

\* The characters of a file's name
NameChars(stem) ==
    (CASE stem = "historical" -> <<"h", "i", "s", "t", "o", "r", "i", "c", "a", "l">>
       [] stem = "maps" -> <<"m", "a", "p", "s">>
       [] stem = "maps-old" -> <<"m", "a", "p", "s", "-", "o", "l", "d">>)
    \o <<".", "y", "a", "m", "l">>

\* ord(c)
Ord(c) ==
    CASE c = "-" -> 45 [] c = "." -> 46
      [] c = "a" -> 97 [] c = "c" -> 99 [] c = "d" -> 100 [] c = "h" -> 104
      [] c = "i" -> 105 [] c = "l" -> 108 [] c = "m" -> 109 [] c = "o" -> 111
      [] c = "p" -> 112 [] c = "r" -> 114 [] c = "s" -> 115 [] c = "t" -> 116
      [] c = "y" -> 121

\* a < b for two strings, by code point
RECURSIVE LexLess(_, _)
LexLess(a, b) ==
    IF b = <<>> THEN FALSE
    ELSE IF a = <<>> THEN TRUE
    ELSE IF Ord(Head(a)) # Ord(Head(b)) THEN Ord(Head(a)) < Ord(Head(b))
    ELSE LexLess(Tail(a), Tail(b))

NameLess(s1, s2) == LexLess(NameChars(s1), NameChars(s2))

\* The names in descending order
RECURSIVE SortedDescending(_)
SortedDescending(names) ==
    IF names = {} THEN <<>>
    ELSE LET most == CHOOSE m \in names : \A o \in names \ {m} : NameLess(o, m)
         IN  <<most>> \o SortedDescending(names \ {most})

\* sorted(LINKS_DIR.glob("*.yaml"))
RECURSIVE Sorted(_)
Sorted(names) ==
    IF names = {} THEN <<>>
    ELSE LET least == CHOOSE m \in names : \A o \in names \ {m} : NameLess(m, o)
         IN  <<least>> \o Sorted(names \ {least})

U_ok ==
    Str(<<"https", ":", "/", "/", "example", ".", "com", "/",
          "{", "email", "|", "urlEncode", "}">>)
U_sub ==
    Str(<<"https", ":", "/", "/", "sub", ".", "example", ".", "co", ".", "uk",
          "/", "path">>)
U_badfmt ==
    Str(<<"https", ":", "/", "/", "example", ".", "com", "/",
          "{", "email", "|", "frobnicate", "}", "{", "q", ":", "lower", "}">>)
U_blank == Str(<<" ">>)
U_nohost == Str(<<"example", ".", "com", "/", "path">>)
U_bracket == Str(<<"http", ":", "/", "/", "[", "bad", "/", "x">>)
U_padded ==
    Str(<<" ", "https", ":", "/", "/", "u", "@", "Example", ".", "COM", ":",
          "80", "/", "{", "q", "}", "\t">>)

Base ==
    [id |-> W("x"), display |-> W("D"), url |-> U_ok,
     types |-> PyList(<<W("name")>>)]

E_x == PyDict(Base)
E_y ==
    PyDict([id |-> W("y"), provider |-> W("P"), display |-> W("Y"),
            icon |-> Str(<<"i", ".", "png">>), description |-> W("about"),
            region |-> W("EU"), payWall |-> W("Paid"), url |-> U_sub,
            priority |-> PyInt(5),
            types |-> PyList(<<Str(<<"email", "-", "address">>), W("domain")>>),
            autorun |-> PyBool(TRUE)])
E_int1 == PyDict([Base EXCEPT !.id = PyInt(1), !.url = U_padded])
E_str1 == PyDict(("priority" :> W("7")) @@ [Base EXCEPT !.id = W("1"), !.url = U_nohost])
E_noid ==
    PyDict([display |-> W("D"), url |-> U_ok, types |-> PyList(<<W("name")>>)])
E_bad ==
    PyDict(("payWall" :> W("Gold")) @@
           [Base EXCEPT !.url = U_badfmt,
                        !.types = PyList(<<W("name"), W("bogus"), PyInt(3)>>)])
E_blank == PyDict(("icon" :> EmptyStr) @@ [Base EXCEPT !.id = W("z"), !.url = U_blank])
E_crash == PyDict(("priority" :> W("high")) @@ Base)
E_urlint == PyDict([Base EXCEPT !.id = W("v"), !.url = PyInt(123)])
E_typesstr == PyDict([Base EXCEPT !.id = W("t"), !.types = W("name")])
E_typesnull == PyDict(("payWall" :> None) @@ [Base EXCEPT !.id = W("n"), !.types = None])
E_bracket == PyDict([Base EXCEPT !.id = W("b"), !.url = U_bracket])
E_scalar == W("oops")

\* The entries a source file may list
EntrySamples ==
    { E_x, E_y, E_int1, E_str1, E_noid, E_bad, E_blank, E_crash, E_urlint,
      E_typesstr, E_typesnull, E_bracket, E_scalar }

\* What yaml.safe_load(f) may return: a list of entries, or a value that is
\* no list (None for an empty document, a mapping)
Documents ==
    {PyList(l) : l \in UNION {[1 .. n -> EntrySamples] : n \in 0 .. MaxEntries}}
    \cup {None, E_x}

\* What date.today().isoformat() may return
Dates == {"2024-05-01", "2024-05-02"}

----------------------------------------------------------------------------
(* Build *)

\* Line 145: eid = str(entry.get("id", ""))
Eid(entry) == PyStrOf(Get(entry, "id", EmptyStr))

\* Lines 148-149: the duplicate-ID error, if eid was seen before
DuplicateErrors(source, eid, seen) ==
    IF eid \in seen THEN <<Err(source, eid.s, "duplicate ID", <<>>)>> ELSE <<>>

\* A seen set that remembers only the last identifier
SeenAfterLastOnly(seen, eid) == {eid}

\* Line 150: seen_ids.add(eid)
SeenAfter(seen, eid) == seen \cup {eid}

\* Line 156: url = str(entry.get("url", "")).strip()
UrlOf(entry) == Str(Strip(PyStrOf(Get(entry, "url", EmptyStr)).s))

\* Line 162: entry.get("icon") or favicon_url(url)
IconOf(entry) ==
    IF Truthy(Get(entry, "icon", None))
    THEN Get(entry, "icon", None)
    ELSE favicon_url(UrlOf(entry).s)

\* Lines 168-169: int(...) or list(...) raises
LinkRaises(entry) ==
    \/ ~PyIntOf(Get(entry, "priority", PyInt(0))).ok
    \/ ~PyListOf(Get(entry, "types", PyList(<<>>))).ok

\* Lines 158-171: the output record of an entry
LinkOf(entry, category) ==
    [id          |-> Eid(entry),
     provider    |-> PyStrOf(Get(entry, "provider", EmptyStr)),
     display     |-> PyStrOf(Get(entry, "display", EmptyStr)),
     icon        |-> IconOf(entry),
     description |-> PyStrOf(Get(entry, "description", EmptyStr)),
     region      |-> PyStrOf(Get(entry, "region", W("Global"))),
     payWall     |-> PyStrOf(Get(entry, "payWall", W("Free"))),
     url         |-> UrlOf(entry),
     category    |-> category,
     priority    |-> PyInt(PyIntOf(Get(entry, "priority", PyInt(0))).n),
     types       |-> PyList(PyListOf(Get(entry, "types", PyList(<<>>))).l),
     autorun     |-> PyBool(Truthy(Get(entry, "autorun", PyBool(FALSE))))]

\* A decision that tolerates a single error
DecisionTolerant(errs, check) ==
    IF Len(errs) > 1 THEN "fail"
    ELSE IF check THEN "check"
    ELSE "write"

\* A decision that tests the flag the wrong way round
DecisionFlagInverted(errs, check) ==
    IF errs # <<>> THEN "fail"
    ELSE IF ~check THEN "check"
    ELSE "write"

\* Lines 180-190: which branch the run-level decision takes
Decision(errs, check) ==
    IF errs # <<>> THEN "fail"
    ELSE IF check THEN "check"
    ELSE "write"

\* Lines 192-197
Document(today, lks) ==
    [note |-> "DO NOT EDIT", version |-> "1.0.0", updatedAt |-> today,
     links |-> lks]

InFileLoop == pc = "files" /\ fi <= Len(yaml_files)
InEntryLoop == pc = "entries" /\ ei <= Len(entries.l)
yaml_file == yaml_files[fi]
entry == entries.l[ei]

Init ==
    /\ check_only \in BOOLEAN
    /\ dir \in SUBSET Stems
    /\ yaml_files = <<>>
    /\ fi = 0
    /\ entries = None
    /\ ei = 0
    /\ file_errors = <<>>
    /\ errors = <<>>
    /\ links = <<>>
    /\ seen_ids = {}
    /\ out_file = <<>>
    /\ rc = -1
    /\ pc = "start"

\* Lines 116-119: no YAML files
NoFiles ==
    /\ pc = "start"
    /\ Sorted(dir) = <<>>
    /\ yaml_files' = Sorted(dir)
    /\ rc' = 1
    /\ pc' = "done"
    /\ UNCHANGED <<check_only, dir, fi, entries, ei, file_errors, errors, links,
                   seen_ids, out_file>>

\* Lines 116-121
Discover ==
    /\ pc = "start"
    /\ Sorted(dir) # <<>>
    /\ yaml_files' = Sorted(dir)
    /\ fi' = 1
    /\ pc' = "files"
    /\ UNCHANGED <<check_only, dir, entries, ei, file_errors, errors, links,
                   seen_ids, out_file, rc>>

\* A skip that reports the file as an error
SkipFileAsError ==
    /\ InFileLoop
    /\ yaml_file \notin MappedStems
    /\ errors' = Append(errors, Err(yaml_file, <<>>, "no category mapping", <<>>))
    /\ fi' = fi + 1
    /\ UNCHANGED <<check_only, dir, yaml_files, entries, ei, file_errors,
                   links, seen_ids, out_file, rc, pc>>

\* Lines 122-126: a stem without a category
SkipFile ==
    /\ InFileLoop
    /\ yaml_file \notin MappedStems
    /\ fi' = fi + 1
    /\ UNCHANGED <<check_only, dir, yaml_files, entries, ei, file_errors,
                   errors, links, seen_ids, out_file, rc, pc>>

\* Lines 128-133: yaml.safe_load raises YAMLError
ParseError ==
    /\ InFileLoop
    /\ yaml_file \in MappedStems
    /\ errors' = Append(errors, Err(yaml_file, <<>>, "YAML parse error", <<>>))
    /\ fi' = fi + 1
    /\ UNCHANGED <<check_only, dir, yaml_files, entries, ei, file_errors, links,
                   seen_ids, out_file, rc, pc>>

\* Lines 128-137: the document is not a list
NotAList ==
    /\ InFileLoop
    /\ yaml_file \in MappedStems
    /\ \E doc \in Documents :
         /\ ~IsList(doc)
         /\ entries' = doc
    /\ errors' = Append(errors, Err(yaml_file, <<>>, "expected a YAML list", <<>>))
    /\ fi' = fi + 1
    /\ UNCHANGED <<check_only, dir, yaml_files, ei, file_errors, links,
                   seen_ids, out_file, rc, pc>>

\* Lines 128-140: the document is a list
LoadEntries ==
    /\ InFileLoop
    /\ yaml_file \in MappedStems
    /\ \E doc \in Documents :
         /\ IsList(doc)
         /\ entries' = doc
    /\ file_errors' = <<>>
    /\ ei' = 1
    /\ pc' = "entries"
    /\ UNCHANGED <<check_only, dir, yaml_files, fi, errors, links, seen_ids,
                   out_file, rc>>

\* Lines 141-143: an entry that is no mapping
SkipNonMapping ==
    /\ InEntryLoop
    /\ ~IsDict(entry)
    /\ file_errors' =
           Append(file_errors, Err(yaml_file, <<>>, "entry must be a mapping", <<>>))
    /\ ei' = ei + 1
    /\ UNCHANGED <<check_only, dir, yaml_files, fi, entries, errors, links,
                   seen_ids, out_file, rc, pc>>

\* Lines 145-172: the loop body for a mapping, when nothing raises
ProcessEntry ==
    /\ InEntryLoop
    /\ IsDict(entry)
    /\ ~validate_entry(entry, yaml_file).raised
    /\ ~LinkRaises(entry)
    /\ seen_ids' = SeenAfter(seen_ids, Eid(entry))
    /\ file_errors' = file_errors
                      \o DuplicateErrors(yaml_file, Eid(entry), seen_ids)
                      \o validate_entry(entry, yaml_file).errors
    /\ links' = Append(links, LinkOf(entry, CategoryOf(yaml_file)))
    /\ ei' = ei + 1
    /\ UNCHANGED <<check_only, dir, yaml_files, fi, entries, errors, out_file,
                   rc, pc>>

\* Lines 145-171 and 213: validate_entry, int() or list() raises; nothing in
\* build catches it, so the interpreter prints the traceback and exits 1
EntryRaises ==
    /\ InEntryLoop
    /\ IsDict(entry)
    /\ validate_entry(entry, yaml_file).raised \/ LinkRaises(entry)
    /\ seen_ids' = SeenAfter(seen_ids, Eid(entry))
    /\ file_errors' = file_errors
                      \o DuplicateErrors(yaml_file, Eid(entry), seen_ids)
                      \o validate_entry(entry, yaml_file).errors
    /\ rc' = 1
    /\ pc' = "raised"
    /\ UNCHANGED <<check_only, dir, yaml_files, fi, entries, ei, errors, links,
                   out_file>>

\* Lines 174-176: the end of a file's entries
EndFile ==
    /\ pc = "entries"
    /\ ei > Len(entries.l)
    /\ errors' = errors \o file_errors
    /\ fi' = fi + 1
    /\ pc' = "files"
    /\ UNCHANGED <<check_only, dir, yaml_files, entries, ei, file_errors, links,
                   seen_ids, out_file, rc>>

AfterFileLoop == pc = "files" /\ fi > Len(yaml_files)

\* Lines 180-186
FailRun ==
    /\ AfterFileLoop
    /\ Decision(errors, check_only) = "fail"
    /\ rc' = 1
    /\ pc' = "done"
    /\ UNCHANGED <<check_only, dir, yaml_files, fi, entries, ei, file_errors,
                   errors, links, seen_ids, out_file>>

\* Lines 188-190
CheckPassed ==
    /\ AfterFileLoop
    /\ Decision(errors, check_only) = "check"
    /\ rc' = 0
    /\ pc' = "done"
    /\ UNCHANGED <<check_only, dir, yaml_files, fi, entries, ei, file_errors,
                   errors, links, seen_ids, out_file>>

\* Lines 192-204
WriteOutput ==
    /\ AfterFileLoop
    /\ Decision(errors, check_only) = "write"
    /\ \E today \in Dates : out_file' = <<Document(today, links)>>
    /\ rc' = 0
    /\ pc' = "done"
    /\ UNCHANGED <<check_only, dir, yaml_files, fi, entries, ei, file_errors,
                   errors, links, seen_ids>>

Next ==
    \/ NoFiles
    \/ Discover
    \/ SkipFile
    \/ ParseError
    \/ NotAList
    \/ LoadEntries
    \/ SkipNonMapping
    \/ ProcessEntry
    \/ EntryRaises
    \/ EndFile
    \/ FailRun
    \/ CheckPassed
    \/ WriteOutput

Spec == Init /\ [][Next]_vars

----------------------------------------------------------------------------
(* Properties *)

Finished == pc \in {"done", "raised"}

\* FILENAME_TO_CATEGORY read backwards: the stem of a record's category
StemOf(category) == (CHOOSE p \in FILENAME_TO_CATEGORY : p[2] = category)[1]

\* C1: once an error is on the accumulated error list, no output document
\* is written and the run ends with exit status 1, whatever check_only is.
C1_ErrorsFailTheRun ==
    errors # <<>> => /\ out_file = <<>>
                     /\ Finished => rc = 1

C1_Witness ==
    /\ pc = "done" /\ errors # <<>> /\ links # <<>> /\ ~check_only
    /\ Len(yaml_files) >= 2

C3_WrittenIdsDistinct ==
    out_file # <<>> =>
        LET lks == out_file[1].links
        IN  \A i, j \in 1 .. Len(lks) :
                i # j => PyStrOf(lks[i].id) # PyStrOf(lks[j].id)

C3_Witness ==
    /\ out_file # <<>>
    /\ \E i, j \in 1 .. Len(out_file[1].links) :
           out_file[1].links[i].category # out_file[1].links[j].category

DuplicateCount(errs) ==
    Cardinality({k \in 1 .. Len(errs) : errs[k].kind = "duplicate ID"})

\* C4: the loop body, run on a mapping whose identifier is already in the
\* seen set, records exactly one duplicate-ID error, keeps the identifier in
\* the seen set and appends the entry's record to the link list.
C4_DuplicateStillAppended ==
    [][(InEntryLoop /\ IsDict(entry) /\ Eid(entry) \in seen_ids) =>
          /\ DuplicateCount(file_errors') = DuplicateCount(file_errors) + 1
          /\ Eid(entry) \in seen_ids'
          /\ Len(links') = Len(links) + 1
          /\ links'[Len(links')].id = Eid(entry)]_vars

\* C5: no exception escapes build, whatever the shapes of the field values.
C5_NothingRaised == pc # "raised"

\* C6: the icon derived for an entry without an explicit icon is the empty
\* string when the url does not parse or has no hostname, and the favicon
\* service URL of the hostname otherwise.
C6_FaviconEmptyWithoutHost ==
    (pc = "entries" /\ ei > 1 /\ IsDict(entries.l[ei - 1])
        /\ ~Truthy(Get(entries.l[ei - 1], "icon", None))) =>
        LET link == links[Len(links)]
        IN  IF UrlParseRaises(link.url.s) \/ Hostname(link.url.s) = <<>>
            THEN link.icon = EmptyStr
            ELSE link.icon =
                   Str(FaviconPrefix \o LowerToks(Hostname(link.url.s))
                       \o FaviconSuffix)

\* C7: visiting a file whose stem has no category changes neither the link
\* list, the error list nor the seen set, and the file is not parsed.
C7_UnmappedFileChangesNothing ==
    [][(InFileLoop /\ yaml_file \notin MappedStems) =>
          /\ UNCHANGED <<links, errors, seen_ids, entries, file_errors>>
          /\ fi' = fi + 1]_vars

C7_Witness ==
    /\ pc = "done" /\ rc = 0 /\ links # <<>>
    /\ \E k \in 1 .. Len(yaml_files) :
          /\ yaml_files[k] \notin MappedStems
          /\ k < Len(yaml_files)

\* An entry that is valid in the sense of the schema: id, display, url and
\* types present and truthy, url a string, types a non-empty list of known
\* types, payWall absent or known, every formatter in url known
ValidEntry(e) ==
    /\ \A f \in {"id", "display", "url", "types"} : Has(e, f) /\ Truthy(e.d[f])
    /\ IsStr(e.d.url)
    /\ IsList(e.d.types)
    /\ \A k \in 1 .. Len(e.d.types.l) : e.d.types.l[k] \in KNOWN_TYPES
    /\ Has(e, "payWall") => e.d.payWall \in KNOWN_PAYWALLS
    /\ LET ms == PLACEHOLDER_RE_findall(e.d.url.s)
       IN  \A k \in 1 .. Len(ms) : ms[k][2] = "" \/ ms[k][2] \in KNOWN_FORMATTERS

\* C8: validate_entry returns no errors for a valid entry, so the valid
\* entries of a file add nothing but duplicate-ID errors to its errors.
C8_ValidEntryNoErrors ==
    /\ (InEntryLoop /\ IsDict(entry) /\ ValidEntry(entry)) =>
           validate_entry(entry, yaml_file) = [raised |-> FALSE, errors |-> <<>>]
    /\ (pc = "entries" /\ \A k \in 1 .. ei - 1 :
                              IsDict(entries.l[k]) /\ ValidEntry(entries.l[k])) =>
           \A k \in 1 .. Len(file_errors) : file_errors[k].kind = "duplicate ID"

C8_Witness ==
    /\ pc = "entries" /\ ei = 3
    /\ \A k \in 1 .. 2 : IsDict(entries.l[k]) /\ ValidEntry(entries.l[k])
    /\ Has(entries.l[1], "payWall") /\ ~Has(entries.l[2], "payWall")
    /\ PLACEHOLDER_RE_findall(entries.l[2].d.url.s) # <<>>

\* The records of the mappings among the first n entries, in their order
RECURSIVE RecordsOf(_, _, _)
RecordsOf(list, n, category) ==
    IF n = 0 THEN <<>>
    ELSE RecordsOf(list, n - 1, category)
         \o (IF IsDict(list[n]) THEN <<LinkOf(list[n], category)>> ELSE <<>>)

\* C9: the files are visited in lexicographic order of their names, a record
\* of an earlier file precedes every record of a later one, and the records
\* of one file are in the order of its entries.
C9_LinkOrder ==
    /\ \A i, j \in 1 .. Len(yaml_files) :
           i < j => NameLess(yaml_files[i], yaml_files[j])
    /\ \A i, j \in 1 .. Len(links) :
           i < j => ~NameLess(StemOf(links[j].category), StemOf(links[i].category))
    /\ pc = "entries" =>
           LET FromThisFile(l) == l.category = CategoryOf(yaml_file)
           IN  SelectSeq(links, FromThisFile)
                   = RecordsOf(entries.l, ei - 1, CategoryOf(yaml_file))

C9_Witness ==
    /\ Len(links) = 4
    /\ links[2].category # links[3].category
    /\ links[1] # links[2]
    /\ links[3] # links[4]

\* C10: every record of a written document passes the validator as emitted.
C10_WrittenRecordsValid ==
    out_file # <<>> =>
        \A i \in 1 .. Len(out_file[1].links) :
            validate_entry(PyDict(out_file[1].links[i]), "links.json")
                = [raised |-> FALSE, errors |-> <<>>]

=============================================================================
